---- MODULE Spec2Model ----
(***************************************************************************)
(* A/B testing engine of SocialMedia-AutoBot (src/app/ab_testing.py).      *)
(*                                                                         *)
(* The state is the SQLite database of ABTestEngine: the three tables      *)
(* experiments, variants and variant_metrics.  Every public method of the  *)
(* engine is one action; the value it returns is kept in `last`.           *)
(*                                                                         *)
(* Representation                                                          *)
(*  - ids: create_experiment and add_variant return the first 12 hex       *)
(*    digits of an md5 over the name and the current time; the model       *)
(*    hands out 1, 2, ... (next_exp, next_var), never reusing an id.       *)
(*    Callers may pass any id, existing or not.                            *)
(*  - SQL NULL / Python None is NULL (0); NoName is None for a name.       *)
(*  - REAL values are exact rationals [n, d] in lowest terms, d > 0.       *)
(*    A z-score is carried in ten-thousandths (floor), a confidence in     *)
(*    thousandths of a percent, a threshold in percent.                    *)
(*  - variant_metrics is a bag of rows (variant_id, metric_type, value):   *)
(*    the columns id, recorded_at and post_id are never read by a          *)
(*    decision of the engine.  Columns name/platform/min_sample_size/      *)
(*    created_at/notes of experiments and variant_type/content of          *)
(*    variants are likewise left out, except the names copied to results.  *)
(*  - SQLite does not enforce the FOREIGN KEY clauses of the schema        *)
(*    (no PRAGMA foreign_keys=ON is issued), so inserts never fail.        *)
(*                                                                         *)
(* The scheduler of src/app/scheduler.py has a database of its own, the    *)
(* table scheduled_posts; it shares the clock and `last` with the engine.  *)
(***************************************************************************)
EXTENDS Integers, Sequences, FiniteSets, Bags, TLC

\* ---------------------------------------------------------------- bounds
\* Spec
MaxRows == 4     \* ids handed out so far plus rows of variant_metrics
MaxTime == 1     \* the clock runs 1 .. 1 + MaxTime
\* SpecResults
ResMaxVars == 2  \* variants of the experiment
ResMaxObs == 4   \* rows of variant_metrics
\* SpecLift
LiftMaxNum == 4  \* numerators of the arguments: -LiftMaxNum .. LiftMaxNum
LiftMaxDen == 3  \* denominators of the arguments: 1 .. LiftMaxDen
\* SpecScheduler
MaxPosts == 2    \* rows of scheduled_posts
\* SpecEndToEnd
E2EObs == 500    \* observations recorded for each of the two variants
\* SpecZConf
ZSpread == 2     \* z-scores within ZSpread ten-thousandths of every row of the table
ZMaxK == 40      \* and the z-scores 0.0, 0.1, ... up to ZMaxK tenths
\* SpecZTest
ZMaxN == 3       \* sample sizes of the arguments: 0 .. ZMaxN
\* SpecTies
TieVars == 3     \* variants of the experiment
TieMaxObs == 5   \* rows of variant_metrics

\* ---------------------------------------------------------------- inputs
NULL == 0
NoName == "<None>"

ExpIdArgs == 1 .. 2     \* the experiment ids handed out and passed by callers
VarIdArgs == 1 .. 2     \* the variant ids handed out and passed by callers
ExpNames == {"exp"}
VarNames == {"var"}
PrimaryMetrics == {"engagement_rate"}
RecordedMetrics == {"engagement_rate", "likes"}
Thresholds == {95, 50, 0}
LifeThresholds == {95}
Values == {0, 100}
LifeValues == {100}
Statuses == {"draft", "running", "paused", "completed", "cancelled"}
MetricTypes ==
    {"engagement_rate", "likes", "comments", "shares", "saves", "clicks", "reach",
     "impressions", "conversions", "ctr"}

VARIABLES experiments, variants, variant_metrics, now, next_exp, next_var, last,
          scheduled_posts, next_post

db == <<experiments, variants, variant_metrics>>
vars == <<experiments, variants, variant_metrics, now, next_exp, next_var, last,
          scheduled_posts, next_post>>

\* ------------------------------------------------------------- rationals
RECURSIVE GCD(_, _)
GCD(a, b) == IF b = 0 THEN a ELSE GCD(b, a % b)

Abs(x) == IF x < 0 THEN -x ELSE x

R(n, d) ==
    LET s == IF d < 0 THEN -1 ELSE 1
        g == GCD(Abs(n), Abs(d))
    IN  [n |-> (s * n) \div g, d |-> (s * d) \div g]

Zero == [n |-> 0, d |-> 1]
One == [n |-> 1, d |-> 1]
Hundred == [n |-> 100, d |-> 1]
RInt(k) == [n |-> k, d |-> 1]
\* common factors are cancelled before multiplying, to keep the integers small
RAdd(a, b) ==
    LET g == GCD(a.d, b.d)
    IN  R(a.n * (b.d \div g) + b.n * (a.d \div g), (a.d \div g) * b.d)
RNeg(a) == [n |-> -a.n, d |-> a.d]
RSub(a, b) == RAdd(a, RNeg(b))
RMul(a, b) ==
    LET g1 == GCD(Abs(a.n), b.d)
        g2 == GCD(Abs(b.n), a.d)
    IN  R((a.n \div g1) * (b.n \div g2), (a.d \div g2) * (b.d \div g1))
RDiv(a, b) == RMul(a, R(b.d, b.n))
RLt(a, b) == LET g == GCD(a.d, b.d) IN a.n * (b.d \div g) < b.n * (a.d \div g)
RLe(a, b) == LET g == GCD(a.d, b.d) IN a.n * (b.d \div g) <= b.n * (a.d \div g)
RMin(a, b) == IF RLe(a, b) THEN a ELSE b

\* floor(q * 10^k) for q >= 0, by long division
RECURSIVE LongDiv(_, _, _, _)
LongDiv(acc, r, d, k) ==
    IF k = 0 THEN acc
    ELSE LongDiv(acc * 10 + (r * 10) \div d, (r * 10) % d, d, k - 1)

ScaleFloor(q, k) == LongDiv(q.n \div q.d, q.n % q.d, q.d, k)

\* floor(sqrt(x)) for lo*lo <= x < hi*hi
RECURSIVE ISqrtIn(_, _, _)
ISqrtIn(x, lo, hi) ==
    IF hi - lo <= 1 THEN lo
    ELSE LET mid == (lo + hi) \div 2
         IN  IF mid * mid <= x THEN ISqrtIn(x, mid, hi) ELSE ISqrtIn(x, lo, mid)

\* math.sqrt of a z-score squared, in ten-thousandths: floor(10000 * sqrt(q)); a
\* value above sqrt(11), which is past the last row of the z table, is reported
\* as floor(10000 * sqrt(11))
SqrtE4(q) ==
    IF q.n >= 11 * q.d THEN 33166 ELSE ISqrtIn(ScaleFloor(q, 8), 0, 33167)

\* ------------------------------------------------------ statistical engine
\* fault injection (C20): only a control value of 0 is guarded, not a negative one
_calculate_lift_ZeroOnly(control_value, test_value) ==
    IF control_value = Zero THEN Zero
    ELSE RMul(RDiv(RSub(test_value, control_value), control_value), Hundred)

\* _calculate_lift(control_value, test_value), in percent
_calculate_lift(control_value, test_value) ==
    IF RLe(control_value, Zero) THEN Zero
    ELSE RMul(RDiv(RSub(test_value, control_value), control_value), Hundred)

\* fault injection (C22): the interpolation divides by 0.5, not by 0.674
_z_to_confidence_Steep(z) ==
    IF z >= 32900 THEN 99900
    ELSE IF z >= 25760 THEN 99000
    ELSE IF z >= 23260 THEN 98000
    ELSE IF z >= 19600 THEN 95000
    ELSE IF z >= 16450 THEN 90000
    ELSE IF z >= 12800 THEN 80000
    ELSE IF z >= 10360 THEN 70000
    ELSE IF z >= 8420 THEN 60000
    ELSE IF z >= 6740 THEN 50000
    ELSE LET lin == (z * 5000) \div 500
         IN  IF lin < 0 THEN 0 ELSE lin

\* _z_to_confidence(z): z in ten-thousandths, the result in thousandths of a percent
_z_to_confidence(z) ==
    IF z >= 32900 THEN 99900
    ELSE IF z >= 25760 THEN 99000
    ELSE IF z >= 23260 THEN 98000
    ELSE IF z >= 19600 THEN 95000
    ELSE IF z >= 16450 THEN 90000
    ELSE IF z >= 12800 THEN 80000
    ELSE IF z >= 10360 THEN 70000
    ELSE IF z >= 8420 THEN 60000
    ELSE IF z >= 6740 THEN 50000
    ELSE LET lin == (z * 5000) \div 674
         IN  IF lin < 0 THEN 0 ELSE lin

\* fault injection (C21): a sample of one observation is accepted
_z_test_confidence_OneSample(control_rate, control_n, test_rate, test_n) ==
    IF control_n < 1 \/ test_n < 1 THEN 0
    ELSE
    LET p1 == RMin(RDiv(control_rate, Hundred), One)
        p2 == RMin(RDiv(test_rate, Hundred), One)
        p_pool == RDiv(RAdd(RMul(p1, RInt(control_n)), RMul(p2, RInt(test_n))),
                       RInt(control_n + test_n))
    IN  IF RLe(p_pool, Zero) \/ RLe(One, p_pool) THEN 0
        ELSE
        LET se2 == RMul(RMul(p_pool, RSub(One, p_pool)),
                        RAdd(R(1, control_n), R(1, test_n)))
            diff == RSub(p2, p1)
        IN  IF RLe(se2, Zero) THEN 0
            ELSE _z_to_confidence(SqrtE4(RDiv(RMul(diff, diff), se2)))

\* fault injection (C23): the rates are taken as proportions, not divided by 100
_z_test_confidence_NoPercent(control_rate, control_n, test_rate, test_n) ==
    IF control_n < 2 \/ test_n < 2 THEN 0
    ELSE
    LET p1 == RMin(control_rate, One)
        p2 == RMin(test_rate, One)
        p_pool == RDiv(RAdd(RMul(p1, RInt(control_n)), RMul(p2, RInt(test_n))),
                       RInt(control_n + test_n))
    IN  IF RLe(p_pool, Zero) \/ RLe(One, p_pool) THEN 0
        ELSE
        LET se2 == RMul(RMul(p_pool, RSub(One, p_pool)),
                        RAdd(R(1, control_n), R(1, test_n)))
            diff == RSub(p2, p1)
        IN  IF RLe(se2, Zero) THEN 0
            ELSE _z_to_confidence(SqrtE4(RDiv(RMul(diff, diff), se2)))

\* _z_test_confidence(control_rate, control_n, test_rate, test_n)
_z_test_confidence(control_rate, control_n, test_rate, test_n) ==
    IF control_n < 2 \/ test_n < 2 THEN 0
    ELSE
    LET p1 == RMin(RDiv(control_rate, Hundred), One)
        p2 == RMin(RDiv(test_rate, Hundred), One)
        p_pool == RDiv(RAdd(RMul(p1, RInt(control_n)), RMul(p2, RInt(test_n))),
                       RInt(control_n + test_n))
    IN  IF RLe(p_pool, Zero) \/ RLe(One, p_pool) THEN 0
        ELSE
        LET se2 == RMul(RMul(p_pool, RSub(One, p_pool)),
                        RAdd(R(1, control_n), R(1, test_n)))
            diff == RSub(p2, p1)
        IN  IF RLe(se2, Zero) THEN 0
            ELSE _z_to_confidence(SqrtE4(RDiv(RMul(diff, diff), se2)))

\* ----------------------------------------------------------- metric store
RECURSIVE SumCount(_, _)
SumCount(bag, rows) ==
    IF rows = {} THEN 0
    ELSE LET r == CHOOSE x \in rows : TRUE
         IN  bag[r] + SumCount(bag, rows \ {r})

RECURSIVE SumValue(_, _)
SumValue(bag, rows) ==
    IF rows = {} THEN 0
    ELSE LET r == CHOOSE x \in rows : TRUE
         IN  bag[r] * r.value + SumValue(bag, rows \ {r})

RowsOf(metrics, v, m) ==
    {r \in BagToSet(metrics) : r.variant_id = v /\ r.metric_type = m}

RowsOfVariant(metrics, v) == {r \in BagToSet(metrics) : r.variant_id = v}

\* SELECT COUNT(*) FROM variant_metrics WHERE variant_id=? AND metric_type=?
MetricCount(metrics, v, m) == SumCount(metrics, RowsOf(metrics, v, m))

\* SELECT AVG(value) ..., read as `metrics["avg_val"] or 0`: AVG is NULL over no
\* rows, and `or 0` turns NULL (and 0.0) into 0
MetricAvg(metrics, v, m) ==
    LET c == MetricCount(metrics, v, m)
    IN  IF c = 0 THEN Zero ELSE R(SumValue(metrics, RowsOf(metrics, v, m)), c)

\* number of rows of variant_metrics carrying variant id v, any metric
ObservationCount(metrics, v) == SumCount(metrics, RowsOfVariant(metrics, v))

\* ------------------------------------------------------ result synthesizer
VariantsOf(vs, e) == {v \in DOMAIN vs : vs[v].experiment_id = e}

\* the elements of S in the order of their creation: ids are handed out in
\* increasing order and SQLite gives every new row the next rowid
RECURSIVE CreationOrder(_)
CreationOrder(S) ==
    IF S = {} THEN <<>>
    ELSE LET x == CHOOSE y \in S : \A z \in S : y <= z
         IN  <<x>> \o CreationOrder(S \ {x})

\* SELECT * FROM variants WHERE experiment_id=? ORDER BY is_control DESC: the rows
\* flagged is_control first.  SQL leaves the order of rows with equal keys open;
\* SQLite reads the rows through idx_variants_experiment in rowid order and its
\* sorter keeps that order among equal keys (observed on SQLite 3.40.1, with and
\* without reverse_unordered_selects, on up to 20000 rows), so each group comes in
\* creation order.
VariantOrders(vs, e) ==
    {CreationOrder({v \in VariantsOf(vs, e) : vs[v].is_control})
        \o CreationOrder({v \in VariantsOf(vs, e) : ~vs[v].is_control})}

\* the dict vd built for one row of variants
VariantRow(vs, ms, v, primary_metric) ==
    [id |-> v, name |-> vs[v].name, is_control |-> vs[v].is_control,
     metric_value |-> MetricAvg(ms, v, primary_metric),
     sample_size |-> MetricCount(ms, v, primary_metric)]

VariantData(vs, ms, ord, primary_metric) ==
    [i \in 1 .. Len(ord) |-> VariantRow(vs, ms, ord[i], primary_metric)]

HasControl(variant_data) == \E i \in DOMAIN variant_data : variant_data[i].is_control

\* control_data after the loop: every control row assigns it, the last one stays
ControlData(variant_data) ==
    LET idx == {i \in DOMAIN variant_data : variant_data[i].is_control}
    IN  variant_data[CHOOSE i \in idx : \A j \in idx : j <= i]

NotControlRow(r) == ~r.is_control

\* fault injection (C13): among equal maxima the last one is taken, not the first
BestOf_LastMax(variant_data, control_data) ==
    LET non_control == SelectSeq(variant_data, NotControlRow)
    IN  IF Len(non_control) = 0 THEN control_data
        ELSE non_control[CHOOSE i \in DOMAIN non_control :
                /\ \A j \in DOMAIN non_control :
                       RLe(non_control[j].metric_value, non_control[i].metric_value)
                /\ \A j \in i + 1 .. Len(non_control) :
                       RLt(non_control[j].metric_value, non_control[i].metric_value)]

\* max(non_control, key=metric_value): the first maximal element; the control
\* itself when there is no other variant
BestOf(variant_data, control_data) ==
    LET non_control == SelectSeq(variant_data, NotControlRow)
    IN  IF Len(non_control) = 0 THEN control_data
        ELSE non_control[CHOOSE i \in DOMAIN non_control :
                /\ \A j \in DOMAIN non_control :
                       RLe(non_control[j].metric_value, non_control[i].metric_value)
                /\ \A j \in 1 .. i - 1 :
                       RLt(non_control[j].metric_value, non_control[i].metric_value)]

\* fault injection (C14): the confidence must exceed the threshold, not only reach it
SignificanceTest_Strict(control_data, best, confidence_threshold) ==
    IF control_data.sample_size > 0 /\ best.sample_size > 0
    THEN LET confidence == _z_test_confidence(control_data.metric_value,
                               control_data.sample_size, best.metric_value, best.sample_size)
         IN  [lift |-> _calculate_lift(control_data.metric_value, best.metric_value),
              confidence |-> confidence,
              is_significant |-> confidence > confidence_threshold * 1000]
    ELSE [lift |-> Zero, confidence |-> 0, is_significant |-> FALSE]

\* fault injection (C16): the test is made whether or not there are observations
SignificanceTest_NoGuard(control_data, best, confidence_threshold) ==
    LET confidence == _z_test_confidence(control_data.metric_value,
                          control_data.sample_size, best.metric_value, best.sample_size)
    IN  [lift |-> _calculate_lift(control_data.metric_value, best.metric_value),
         confidence |-> confidence,
         is_significant |-> confidence >= confidence_threshold * 1000]

\* fault injection (C18): the confidence is compared with the default threshold
\* of create_experiment, 95.0, not with the stored one
SignificanceTest_Default(control_data, best, confidence_threshold) ==
    IF control_data.sample_size > 0 /\ best.sample_size > 0
    THEN LET confidence == _z_test_confidence(control_data.metric_value,
                               control_data.sample_size, best.metric_value, best.sample_size)
         IN  [lift |-> _calculate_lift(control_data.metric_value, best.metric_value),
              confidence |-> confidence,
              is_significant |-> confidence >= 95000]
    ELSE [lift |-> Zero, confidence |-> 0, is_significant |-> FALSE]

\* the significance test of control against best; threshold in percent
SignificanceTest(control_data, best, confidence_threshold) ==
    IF control_data.sample_size > 0 /\ best.sample_size > 0
    THEN LET confidence == _z_test_confidence(control_data.metric_value,
                               control_data.sample_size, best.metric_value, best.sample_size)
         IN  [lift |-> _calculate_lift(control_data.metric_value, best.metric_value),
              confidence |-> confidence,
              is_significant |-> confidence >= confidence_threshold * 1000]
    ELSE [lift |-> Zero, confidence |-> 0, is_significant |-> FALSE]

ControlWins(control_data, best) == RLt(best.metric_value, control_data.metric_value)

\* fault injection (C11): the control-wins override of the winner is left out
WinnerData_Best(control_data, best) == best

WinnerData(control_data, best) ==
    IF ControlWins(control_data, best) THEN control_data ELSE best

\* fault injection (C10): the lift is not reset when the control wins
FinalLift_Keep(control_data, best, lift) == lift

FinalLift(control_data, best, lift) ==
    IF ControlWins(control_data, best) THEN Zero ELSE lift

\* fault injection (C9): the leader is named whether or not the result is significant
WinnerId_Always(winner_data, is_significant) == winner_data.id

WinnerId(winner_data, is_significant) ==
    IF is_significant THEN winner_data.id ELSE NULL

WinnerName(winner_data, is_significant) ==
    IF is_significant THEN winner_data.name ELSE NoName

\* ---------------------------------------------------------- recommendations
\* A recommendation is [kind, name, n]: the kind of the note, the variant or the
\* metric it is about ("" if none) and the number it quotes (0 if none).  The
\* percentage formatted into the notes about a variant is left out.
Note(kind, name, n) == [kind |-> kind, name |-> name, n |-> n]

\* total_samples = sum(v["sample_size"] for v in variant_data)
RECURSIVE TotalSamples(_)
TotalSamples(variant_data) ==
    IF Len(variant_data) = 0 THEN 0
    ELSE Head(variant_data).sample_size + TotalSamples(Tail(variant_data))

\* fault injection (C24): the note is given for a significant result as well
SampleNote_Always(total_samples, is_significant) ==
    IF total_samples < 100 THEN <<Note("collect_more", "", total_samples)>>
    ELSE <<Note("no_difference", "", 0)>>

\* the note about the sample size, for a result that is not significant
SampleNote(total_samples, is_significant) ==
    IF ~is_significant
    THEN IF total_samples < 100 THEN <<Note("collect_more", "", total_samples)>>
         ELSE <<Note("no_difference", "", 0)>>
    ELSE <<>>

\* the note about one variant: more than 20% below or more than 50% above the
\* control, when the control's mean is positive
VariantNote(v, control_data) ==
    IF v.is_control THEN <<>>
    ELSE IF RLt(Zero, control_data.metric_value)
    THEN LET diff == RDiv(RSub(v.metric_value, control_data.metric_value),
                          control_data.metric_value)
         IN  IF RLt(diff, R(-1, 5)) THEN <<Note("underperforms", v.name, 0)>>
             ELSE IF RLt(R(1, 2), diff) THEN <<Note("excellent", v.name, 0)>>
             ELSE <<>>
    ELSE <<>>

RECURSIVE VariantNotes(_, _)
VariantNotes(variant_data, control_data) ==
    IF Len(variant_data) = 0 THEN <<>>
    ELSE VariantNote(Head(variant_data), control_data)
            \o VariantNotes(Tail(variant_data), control_data)

\* fault injection (C25): the three metrics share one tip
MetricTip_Same(primary_metric) ==
    IF primary_metric \in {"engagement_rate", "clicks", "shares"}
    THEN <<Note("tip", "questions, polls, controversy, emotion", 0)>>
    ELSE <<>>

\* the metric-specific suggestion
MetricTip(primary_metric) ==
    IF primary_metric = "engagement_rate"
    THEN <<Note("tip", "questions, polls, controversy, emotion", 0)>>
    ELSE IF primary_metric = "clicks"
    THEN <<Note("tip", "clear CTA, curiosity gap, urgency", 0)>>
    ELSE IF primary_metric = "shares"
    THEN <<Note("tip", "practical value, identity, social currency", 0)>>
    ELSE <<>>

_generate_recommendations(variant_data, control_data, is_significant, primary_metric) ==
    SampleNote(TotalSamples(variant_data), is_significant)
        \o VariantNotes(variant_data, control_data)
        \o MetricTip(primary_metric)

\* fault injection (C15): the early return leaves the variant rows out, as the
\* return for an unknown experiment does
EmptyResult_NoRows(experiment_id, experiment_name, primary_metric, variant_data) ==
    [experiment_id |-> experiment_id, experiment_name |-> experiment_name,
     winner_id |-> NULL, winner_name |-> NoName, primary_metric |-> primary_metric,
     confidence |-> 0, is_significant |-> FALSE, lift_percent |-> Zero,
     variant_results |-> <<>>, recommendations |-> <<>>]

EmptyResult(experiment_id, experiment_name, primary_metric, variant_data) ==
    [experiment_id |-> experiment_id, experiment_name |-> experiment_name,
     winner_id |-> NULL, winner_name |-> NoName, primary_metric |-> primary_metric,
     confidence |-> 0, is_significant |-> FALSE, lift_percent |-> Zero,
     variant_results |-> variant_data, recommendations |-> <<>>]

\* get_results(experiment_id) on tables (exps, vs, ms), the variants read in order ord
get_results(exps, vs, ms, experiment_id, ord) ==
    IF experiment_id \notin DOMAIN exps
    THEN EmptyResult(experiment_id, "Unknown", "engagement_rate", <<>>)
    ELSE
    LET exp == exps[experiment_id]
        variant_data == VariantData(vs, ms, ord, exp.primary_metric)
    IN  IF ~HasControl(variant_data) \/ Len(variant_data) = 0
        THEN EmptyResult(experiment_id, exp.name, exp.primary_metric, variant_data)
        ELSE
        LET control_data == ControlData(variant_data)
            best == BestOf(variant_data, control_data)
            test == SignificanceTest(control_data, best, exp.confidence_threshold)
            winner_data == WinnerData(control_data, best)
        IN  [experiment_id |-> experiment_id, experiment_name |-> exp.name,
             winner_id |-> WinnerId(winner_data, test.is_significant),
             winner_name |-> WinnerName(winner_data, test.is_significant),
             primary_metric |-> exp.primary_metric,
             confidence |-> test.confidence,
             is_significant |-> test.is_significant,
             lift_percent |-> FinalLift(control_data, best, test.lift),
             variant_results |-> variant_data,
             recommendations |-> _generate_recommendations(variant_data, control_data,
                                    test.is_significant, exp.primary_metric)]

\* ------------------------------------------------------------ the engine
MsgNeedVariants == "at least 2 variants are needed"
MsgNeedControl == "a control is needed"
MsgStarted == "started"
MsgDeleted == "deleted"
MsgNotFound == "not found"

\* ABTestEngine.__init__ on a new database file: _init_tables creates empty tables
Init ==
    /\ experiments = <<>>
    /\ variants = <<>>
    /\ variant_metrics = EmptyBag
    /\ now = 1
    /\ scheduled_posts = <<>>
    /\ next_post = 1
    /\ next_exp = 1
    /\ next_var = 1
    /\ last = [op |-> "init", arg |-> NULL, ret |-> NULL]

\* datetime.now() moves on between calls
Tick ==
    /\ now <= MaxTime
    /\ now' = now + 1
    /\ UNCHANGED <<scheduled_posts, next_post, experiments, variants, variant_metrics, next_exp, next_var, last>>

NewExperiment(name, primary_metric, confidence_threshold) ==
    [name |-> name, primary_metric |-> primary_metric, status |-> "draft",
     confidence_threshold |-> confidence_threshold,
     started_at |-> NULL, completed_at |-> NULL]

create_experiment(name, primary_metric, confidence_threshold) ==
    /\ experiments' = [e \in DOMAIN experiments \cup {next_exp} |->
                          IF e = next_exp
                          THEN NewExperiment(name, primary_metric, confidence_threshold)
                          ELSE experiments[e]]
    /\ next_exp' = next_exp + 1
    /\ last' = [op |-> "create_experiment", arg |-> NULL, ret |-> next_exp]
    /\ UNCHANGED <<scheduled_posts, next_post, variants, variant_metrics, now, next_var>>

NewVariant(experiment_id, name, is_control) ==
    [experiment_id |-> experiment_id, name |-> name, is_control |-> is_control,
     sample_size |-> 0]

add_variant(experiment_id, name, is_control) ==
    /\ variants' = [v \in DOMAIN variants \cup {next_var} |->
                       IF v = next_var THEN NewVariant(experiment_id, name, is_control)
                       ELSE variants[v]]
    /\ next_var' = next_var + 1
    /\ last' = [op |-> "add_variant", arg |-> NULL, ret |-> next_var]
    /\ UNCHANGED <<scheduled_posts, next_post, experiments, variant_metrics, now, next_exp>>

\* fault injection (C3): the variant count is not checked
StartCheck_NoCount(vs, experiment_id) ==
    IF Cardinality({v \in VariantsOf(vs, experiment_id) : vs[v].is_control}) = 0
    THEN MsgNeedControl
    ELSE MsgStarted

\* fault injection (C4): the control is not checked
StartCheck_NoControl(vs, experiment_id) ==
    IF Cardinality(VariantsOf(vs, experiment_id)) < 2 THEN MsgNeedVariants
    ELSE MsgStarted

\* the two SELECT COUNT(*) checks of start_experiment
StartCheck(vs, experiment_id) ==
    IF Cardinality(VariantsOf(vs, experiment_id)) < 2 THEN MsgNeedVariants
    ELSE IF Cardinality({v \in VariantsOf(vs, experiment_id) : vs[v].is_control}) = 0
         THEN MsgNeedControl
         ELSE MsgStarted

\* fault injection (C29): the UPDATE has no WHERE clause
StartUpdate_All(exps, experiment_id, t) ==
    [e \in DOMAIN exps |-> [exps[e] EXCEPT !.status = "running", !.started_at = t]]

\* UPDATE experiments SET status='running', started_at=? WHERE id=?
StartUpdate(exps, experiment_id, t) ==
    [e \in DOMAIN exps |->
        IF e = experiment_id
        THEN [exps[e] EXCEPT !.status = "running", !.started_at = t]
        ELSE exps[e]]

start_experiment(experiment_id) ==
    LET msg == StartCheck(variants, experiment_id)
    IN  /\ experiments' = IF msg = MsgStarted
                          THEN StartUpdate(experiments, experiment_id, now)
                          ELSE experiments
        /\ last' = [op |-> "start_experiment", arg |-> experiment_id, ret |-> msg]
        /\ UNCHANGED <<scheduled_posts, next_post, variants, variant_metrics, now, next_exp, next_var>>

\* INSERT INTO variant_metrics
InsertMetric(ms, variant_id, metric, value) ==
    ms (+) SetToBag({[variant_id |-> variant_id, metric_type |-> metric, value |-> value]})

\* UPDATE variants SET sample_size = sample_size + 1 WHERE id=?
BumpSampleSize(vs, variant_id) ==
    [v \in DOMAIN vs |->
        IF v = variant_id THEN [vs[v] EXCEPT !.sample_size = @ + 1] ELSE vs[v]]

record_metric(variant_id, metric, value) ==
    /\ variant_metrics' = InsertMetric(variant_metrics, variant_id, metric, value)
    /\ variants' = BumpSampleSize(variants, variant_id)
    /\ last' = [op |-> "record_metric", arg |-> NULL, ret |-> NULL]
    /\ UNCHANGED <<scheduled_posts, next_post, experiments, now, next_exp, next_var>>

\* fault injection (C30): reading the results marks the experiment as running
GetResults_Started(experiment_id) ==
    /\ \E ord \in VariantOrders(variants, experiment_id) :
          last' = [op |-> "get_results", arg |-> experiment_id,
                   ret |-> get_results(experiments, variants, variant_metrics,
                                       experiment_id, ord)]
    /\ experiments' = StartUpdate(experiments, experiment_id, now)
    /\ UNCHANGED <<scheduled_posts, next_post, variants, variant_metrics, now, next_exp, next_var>>

GetResults(experiment_id) ==
    /\ \E ord \in VariantOrders(variants, experiment_id) :
          last' = [op |-> "get_results", arg |-> experiment_id,
                   ret |-> get_results(experiments, variants, variant_metrics,
                                       experiment_id, ord)]
    /\ UNCHANGED <<scheduled_posts, next_post, experiments, variants, variant_metrics, now, next_exp, next_var>>

\* the ids of the rows list_experiments renders; status "" is no filter
\* (LIMIT 20 is never reached)
ListedIds(exps, status) ==
    IF status = "" THEN DOMAIN exps ELSE {e \in DOMAIN exps : exps[e].status = status}

list_experiments(status) ==
    /\ last' = [op |-> "list_experiments", arg |-> NULL,
                ret |-> ListedIds(experiments, status)]
    /\ UNCHANGED <<scheduled_posts, next_post, experiments, variants, variant_metrics, now, next_exp, next_var>>

\* fault injection (C17): only a running experiment is completed
CompleteUpdate_RunningOnly(exps, experiment_id, t) ==
    [e \in DOMAIN exps |->
        IF e = experiment_id /\ exps[e].status = "running"
        THEN [exps[e] EXCEPT !.status = "completed", !.completed_at = t]
        ELSE exps[e]]

\* fault injection (C26): a missing row is inserted (INSERT OR REPLACE)
CompleteUpdate_Upsert(exps, experiment_id, t) ==
    [e \in DOMAIN exps \cup {experiment_id} |->
        IF e = experiment_id
        THEN IF e \in DOMAIN exps
             THEN [exps[e] EXCEPT !.status = "completed", !.completed_at = t]
             ELSE [NewExperiment("", "engagement_rate", 95)
                      EXCEPT !.status = "completed", !.completed_at = t]
        ELSE exps[e]]

\* UPDATE experiments SET status='completed', completed_at=? WHERE id=?
CompleteUpdate(exps, experiment_id, t) ==
    [e \in DOMAIN exps |->
        IF e = experiment_id
        THEN [exps[e] EXCEPT !.status = "completed", !.completed_at = t]
        ELSE exps[e]]

complete_experiment(experiment_id) ==
    /\ experiments' = CompleteUpdate(experiments, experiment_id, now)
    /\ \E ord \in VariantOrders(variants, experiment_id) :
          last' = [op |-> "complete_experiment", arg |-> experiment_id,
                   ret |-> get_results(experiments', variants, variant_metrics,
                                       experiment_id, ord)]
    /\ UNCHANGED <<scheduled_posts, next_post, variants, variant_metrics, now, next_exp, next_var>>

\* fault injection (C5): the observations of the deleted variants are kept
DeleteMetrics_Keep(ms, vs, experiment_id) == ms

\* fault injection (C19): the DELETE has no WHERE clause
DeleteMetrics_All(ms, vs, experiment_id) == EmptyBag

\* DELETE FROM variant_metrics WHERE variant_id=?, for each variant of the experiment
DeleteMetrics(ms, vs, experiment_id) ==
    LET keep == {r \in BagToSet(ms) : r.variant_id \notin VariantsOf(vs, experiment_id)}
    IN  [r \in keep |-> ms[r]]

\* DELETE FROM variants WHERE experiment_id=?
DeleteVariants(vs, experiment_id) ==
    [v \in DOMAIN vs \ VariantsOf(vs, experiment_id) |-> vs[v]]

\* DELETE FROM experiments WHERE id=?
DeleteRow(exps, experiment_id) ==
    [e \in DOMAIN exps \ {experiment_id} |-> exps[e]]

\* cur.rowcount of the DELETE FROM experiments decides the message
DeleteMessage(exps, experiment_id) ==
    IF experiment_id \in DOMAIN exps THEN MsgDeleted ELSE MsgNotFound

delete_experiment(experiment_id) ==
    /\ variant_metrics' = DeleteMetrics(variant_metrics, variants, experiment_id)
    /\ variants' = DeleteVariants(variants, experiment_id)
    /\ experiments' = DeleteRow(experiments, experiment_id)
    /\ last' = [op |-> "delete_experiment", arg |-> experiment_id,
                ret |-> DeleteMessage(experiments, experiment_id)]
    /\ UNCHANGED <<scheduled_posts, next_post, now, next_exp, next_var>>

\* ------------------------------------------------------------ the scheduler
\* src/app/scheduler.py.  The state is the table scheduled_posts, a row being
\* [scheduled_at, status, published_at, error]; AUTOINCREMENT hands out the ids
\* 1, 2, ... (next_post).  A time is a number: scheduled_at and now are compared as
\* the isoformat() strings of naive datetimes, whose order is that of the times.
\* The columns platform, content_type, caption, media_url and created_at are
\* never read by a decision of the scheduler.
MsgScheduled == "scheduled"
MsgBadTime == "bad time format"
MsgCancelled == "cancelled"
MsgNoPending == "no pending post"

\* INSERT INTO scheduled_posts: status DEFAULT 'pending', published_at and error NULL
NewPost(scheduled_at) ==
    [scheduled_at |-> scheduled_at, status |-> "pending", published_at |-> NULL,
     error |-> ""]

\* add_post: datetime.fromisoformat raises ValueError on a string that is no
\* datetime (valid = FALSE), and nothing is stored
add_post(scheduled_at, valid) ==
    /\ IF valid
       THEN /\ scheduled_posts' = [p \in DOMAIN scheduled_posts \cup {next_post} |->
                                     IF p = next_post THEN NewPost(scheduled_at)
                                     ELSE scheduled_posts[p]]
            /\ next_post' = next_post + 1
            /\ last' = [op |-> "add_post", arg |-> scheduled_at, ret |-> MsgScheduled]
       ELSE /\ UNCHANGED <<scheduled_posts, next_post>>
            /\ last' = [op |-> "add_post", arg |-> NULL, ret |-> MsgBadTime]
    /\ UNCHANGED <<experiments, variants, variant_metrics, now, next_exp, next_var>>

\* SELECT ... WHERE status='pending' (LIMIT 20 is never reached)
PendingPosts(posts) == {p \in DOMAIN posts : posts[p].status = "pending"}

list_pending ==
    /\ last' = [op |-> "list_pending", arg |-> NULL, ret |-> PendingPosts(scheduled_posts)]
    /\ UNCHANGED <<scheduled_posts, next_post, experiments, variants, variant_metrics,
                   now, next_exp, next_var>>

\* fault injection (C28): the status is not part of the WHERE clause
DuePosts_AnyStatus(posts, t) == {p \in DOMAIN posts : posts[p].scheduled_at <= t}

\* SELECT * FROM scheduled_posts WHERE status='pending' AND scheduled_at<=?
DuePosts(posts, t) ==
    {p \in DOMAIN posts : posts[p].status = "pending" /\ posts[p].scheduled_at <= t}

get_due_posts ==
    /\ last' = [op |-> "get_due_posts", arg |-> NULL, ret |-> DuePosts(scheduled_posts, now)]
    /\ UNCHANGED <<scheduled_posts, next_post, experiments, variants, variant_metrics,
                   now, next_exp, next_var>>

\* UPDATE scheduled_posts SET status='published', published_at=? WHERE id=?
PublishUpdate(posts, post_id, t) ==
    [p \in DOMAIN posts |->
        IF p = post_id THEN [posts[p] EXCEPT !.status = "published", !.published_at = t]
        ELSE posts[p]]

mark_published(post_id) ==
    /\ scheduled_posts' = PublishUpdate(scheduled_posts, post_id, now)
    /\ last' = [op |-> "mark_published", arg |-> post_id, ret |-> NULL]
    /\ UNCHANGED <<next_post, experiments, variants, variant_metrics, now, next_exp,
                   next_var>>

\* UPDATE scheduled_posts SET status='failed', error=? WHERE id=?
FailUpdate(posts, post_id, error) ==
    [p \in DOMAIN posts |->
        IF p = post_id THEN [posts[p] EXCEPT !.status = "failed", !.error = error]
        ELSE posts[p]]

mark_failed(post_id, error) ==
    /\ scheduled_posts' = FailUpdate(scheduled_posts, post_id, error)
    /\ last' = [op |-> "mark_failed", arg |-> post_id, ret |-> NULL]
    /\ UNCHANGED <<next_post, experiments, variants, variant_metrics, now, next_exp,
                   next_var>>

\* fault injection (C27): the status is not part of the WHERE clause
CancelUpdate_AnyStatus(posts, post_id) ==
    [p \in DOMAIN posts |->
        IF p = post_id THEN [posts[p] EXCEPT !.status = "cancelled"] ELSE posts[p]]

\* UPDATE scheduled_posts SET status='cancelled' WHERE id=? AND status='pending'
CancelUpdate(posts, post_id) ==
    [p \in DOMAIN posts |->
        IF p = post_id /\ posts[p].status = "pending"
        THEN [posts[p] EXCEPT !.status = "cancelled"]
        ELSE posts[p]]

\* cur.rowcount of the UPDATE decides the message
CancelMessage(posts, post_id) ==
    IF CancelUpdate(posts, post_id) # posts THEN MsgCancelled ELSE MsgNoPending

cancel_post(post_id) ==
    /\ scheduled_posts' = CancelUpdate(scheduled_posts, post_id)
    /\ last' = [op |-> "cancel_post", arg |-> post_id,
                ret |-> CancelMessage(scheduled_posts, post_id)]
    /\ UNCHANGED <<next_post, experiments, variants, variant_metrics, now, next_exp,
                   next_var>>

\* SELECT status, COUNT(*) ... GROUP BY status, read for the four statuses shown
PostStatuses == {"pending", "published", "failed", "cancelled"}

StatusCounts(posts) ==
    [st \in PostStatuses |-> Cardinality({p \in DOMAIN posts : posts[p].status = st})]

get_stats ==
    /\ last' = [op |-> "get_stats", arg |-> NULL, ret |-> StatusCounts(scheduled_posts)]
    /\ UNCHANGED <<scheduled_posts, next_post, experiments, variants, variant_metrics,
                   now, next_exp, next_var>>

\* SpecScheduler: every operation of the scheduler, called with the id of any post
\* and with an id that is no post; posts are scheduled for the first time of the
\* clock (due at once), for its last time (due later) and for a time it never reaches
PostIdArgs == 1 .. MaxPosts + 1
SchedTimes == {1, MaxTime + 1, MaxTime + 2}

SchedAdd ==
    \/ next_post <= MaxPosts /\ \E t \in SchedTimes : add_post(t, TRUE)
    \/ add_post(NULL, FALSE)

SchedList == list_pending

SchedDue == get_due_posts

SchedPublished == \E p \in PostIdArgs : mark_published(p)

SchedFailed == \E p \in PostIdArgs : mark_failed(p, "error")

SchedCancel == \E p \in PostIdArgs : cancel_post(p)

SchedStats == get_stats

NextScheduler ==
    \/ Tick
    \/ SchedAdd
    \/ SchedList
    \/ SchedDue
    \/ SchedPublished
    \/ SchedFailed
    \/ SchedCancel
    \/ SchedStats

SpecScheduler == Init /\ [][NextScheduler]_vars

\* ------------------------------------------------- the engine and its callers
\* Spec: every operation, called with any id; the run inserts up to MaxRows rows
RowBudget == (next_exp - 1) + (next_var - 1) + BagCardinality(variant_metrics) < MaxRows

CallCreate ==
    /\ RowBudget
    /\ next_exp \in ExpIdArgs
    /\ \E n \in ExpNames, m \in PrimaryMetrics, t \in LifeThresholds :
          create_experiment(n, m, t)

CallAddVariant ==
    /\ RowBudget
    /\ next_var \in VarIdArgs
    /\ \E e \in ExpIdArgs, n \in VarNames, c \in BOOLEAN : add_variant(e, n, c)

CallStart == \E e \in ExpIdArgs : start_experiment(e)

CallRecord ==
    /\ RowBudget
    /\ \E v \in VarIdArgs, m \in RecordedMetrics, x \in LifeValues : record_metric(v, m, x)

CallGetResults == \E e \in ExpIdArgs : GetResults(e)

CallList == \E s \in Statuses \cup {""} : list_experiments(s)

CallComplete == \E e \in ExpIdArgs : complete_experiment(e)

CallDelete == \E e \in ExpIdArgs : delete_experiment(e)

Next ==
    \/ Tick
    \/ CallCreate
    \/ CallAddVariant
    \/ CallStart
    \/ CallRecord
    \/ CallGetResults
    \/ CallList
    \/ CallComplete
    \/ CallDelete

Spec == Init /\ [][Next]_vars

\* SpecResults: one experiment under analysis, created with any threshold; up to
\* ResMaxVars variants are added to it, up to ResMaxObs observations of its primary
\* metric recorded, and results read for it and for an unknown id
InitResults ==
    /\ \E n \in ExpNames, m \in PrimaryMetrics, t \in Thresholds :
          experiments = [e \in {1} |-> NewExperiment(n, m, t)]
    /\ variants = <<>>
    /\ variant_metrics = EmptyBag
    /\ now = 1
    /\ scheduled_posts = <<>>
    /\ next_post = 1
    /\ next_exp = 2
    /\ next_var = 1
    /\ last = [op |-> "create_experiment", arg |-> NULL, ret |-> 1]

ResAddVariant ==
    /\ next_var <= ResMaxVars
    /\ \E n \in VarNames, c \in BOOLEAN : add_variant(1, n, c)

ResRecord ==
    /\ BagCardinality(variant_metrics) < ResMaxObs
    /\ \E v \in DOMAIN variants, m \in PrimaryMetrics, x \in Values : record_metric(v, m, x)

ResGetResults == \E e \in ExpIdArgs : GetResults(e)

ResComplete == \E e \in ExpIdArgs : complete_experiment(e)

NextResults ==
    \/ ResAddVariant
    \/ ResRecord
    \/ ResGetResults
    \/ ResComplete

SpecResults == InitResults /\ [][NextResults]_vars

\* SpecFrame: the experiment of SpecResults under every operation that keeps it:
\* it is also started and listed
FrameStart == start_experiment(1)

FrameList == \E s \in {"", "running", "completed"} : list_experiments(s)

NextFrame ==
    \/ ResAddVariant
    \/ ResRecord
    \/ ResGetResults
    \/ ResComplete
    \/ FrameStart
    \/ FrameList

SpecFrame == InitResults /\ [][NextFrame]_vars

\* SpecTies: one experiment with up to TieVars variants, any of them flagged
\* is_control (the engine after create_experiment and that many calls of
\* add_variant); up to TieMaxObs observations of its primary metric are recorded
\* and results read
RECURSIVE AddedVariants(_, _)
AddedVariants(flags, k) ==
    IF k = 0 THEN <<>>
    ELSE LET vs == AddedVariants(flags, k - 1)
         IN  [v \in DOMAIN vs \cup {k} |->
                 IF v = k THEN NewVariant(1, "var", flags[k]) ELSE vs[v]]

InitTies ==
    /\ \E n \in ExpNames, m \in PrimaryMetrics, t \in Thresholds :
          experiments = [e \in {1} |-> NewExperiment(n, m, t)]
    /\ \E k \in 0 .. TieVars, flags \in [1 .. TieVars -> BOOLEAN] :
          /\ variants = AddedVariants(flags, k)
          /\ next_var = k + 1
          /\ last = IF k = 0 THEN [op |-> "create_experiment", arg |-> NULL, ret |-> 1]
                             ELSE [op |-> "add_variant", arg |-> NULL, ret |-> k]
    /\ variant_metrics = EmptyBag
    /\ now = 1
    /\ scheduled_posts = <<>>
    /\ next_post = 1
    /\ next_exp = 2

TieRecord ==
    /\ BagCardinality(variant_metrics) < TieMaxObs
    /\ \E v \in DOMAIN variants, m \in PrimaryMetrics, x \in Values : record_metric(v, m, x)

TieGetResults == GetResults(1)

NextTies ==
    \/ TieRecord
    \/ TieGetResults

SpecTies == InitTies /\ [][NextTies]_vars

\* SpecLift: _calculate_lift called on its own, with any two small rationals
LiftInputs == {R(n, d) : n \in -LiftMaxNum .. LiftMaxNum, d \in 1 .. LiftMaxDen}

CallLift ==
    /\ \E c \in LiftInputs, t \in LiftInputs :
          last' = [op |-> "_calculate_lift", arg |-> <<c, t>>, ret |-> _calculate_lift(c, t)]
    /\ UNCHANGED <<scheduled_posts, next_post, experiments, variants, variant_metrics, now, next_exp, next_var>>

NextLift == CallLift

SpecLift == Init /\ [][NextLift]_vars

\* SpecEndToEnd: an experiment with the default threshold on engagement_rate, a
\* control (variant 1) and one other variant (variant 2); the value 2 is recorded
\* for the control and the value 10 for the other variant, up to E2EObs times
\* each and in any order, and results are read whenever both have as many
\* observations (as the callers of the engine do, recording to both in one loop)
InitEndToEnd ==
    /\ experiments = [e \in {1} |-> NewExperiment("exp", "engagement_rate", 95)]
    /\ variants = AddedVariants([k \in 1 .. 2 |-> k = 1], 2)
    /\ variant_metrics = EmptyBag
    /\ now = 1
    /\ scheduled_posts = <<>>
    /\ next_post = 1
    /\ next_exp = 2
    /\ next_var = 3
    /\ last = [op |-> "add_variant", arg |-> NULL, ret |-> 2]

E2ERecordControl ==
    /\ variants[1].sample_size < E2EObs
    /\ record_metric(1, "engagement_rate", 2)

E2ERecordVariant ==
    /\ variants[2].sample_size < E2EObs
    /\ record_metric(2, "engagement_rate", 10)

E2EGetResults ==
    /\ variants[1].sample_size = variants[2].sample_size
    /\ GetResults(1)

NextEndToEnd ==
    \/ E2ERecordControl
    \/ E2ERecordVariant
    \/ E2EGetResults

SpecEndToEnd == InitEndToEnd /\ [][NextEndToEnd]_vars

\* SpecRecs: _generate_recommendations called on its own for a control and one
\* candidate, with means at and on either side of -20% and +50% of the control's,
\* sample sizes that add up to less than, exactly and more than 100, and twice,
\* for two primary metrics
RecSizes == {0, 49, 50, 51}
RecControlValues == {0, 10}
RecValues == {0, 7, 8, 10, 15, 16}

InitRecs ==
    /\ experiments = <<>>
    /\ variants = <<>>
    /\ variant_metrics = EmptyBag
    /\ now = 1
    /\ scheduled_posts = <<>>
    /\ next_post = 1
    /\ next_exp = 1
    /\ next_var = 1
    /\ \E cv \in RecControlValues, cn \in RecSizes, tv \in RecValues, tn \in RecSizes,
          is_significant \in BOOLEAN, m1 \in MetricTypes, m2 \in MetricTypes :
          LET control_data == [id |-> 1, name |-> "c", is_control |-> TRUE,
                               metric_value |-> RInt(cv), sample_size |-> cn]
              test_data == [id |-> 2, name |-> "t", is_control |-> FALSE,
                            metric_value |-> RInt(tv), sample_size |-> tn]
          IN  last = [op |-> "args",
                      arg |-> [variant_data |-> <<control_data, test_data>>,
                               control_data |-> control_data,
                               is_significant |-> is_significant,
                               metrics |-> <<m1, m2>>],
                      ret |-> NULL]

CallRecs ==
    /\ last.op = "args"
    /\ last' = [op |-> "_generate_recommendations", arg |-> last.arg,
                ret |-> [i \in 1 .. 2 |->
                           _generate_recommendations(last.arg.variant_data,
                               last.arg.control_data, last.arg.is_significant,
                               last.arg.metrics[i])]]
    /\ UNCHANGED <<scheduled_posts, next_post, experiments, variants, variant_metrics, now, next_exp, next_var>>

NextRecs == CallRecs

SpecRecs == InitRecs /\ [][NextRecs]_vars

\* SpecZTest: _z_test_confidence called on its own, with rates below, in and above
\* the range 0 .. 100 and sample sizes from 0
ZRates == {R(-5, 1), Zero, R(5, 2), R(5, 1), R(50, 1), Hundred, R(150, 1)}

InitZTest ==
    /\ experiments = <<>>
    /\ variants = <<>>
    /\ variant_metrics = EmptyBag
    /\ now = 1
    /\ scheduled_posts = <<>>
    /\ next_post = 1
    /\ next_exp = 1
    /\ next_var = 1
    /\ \E r1 \in ZRates, r2 \in ZRates, n1 \in 0 .. ZMaxN, n2 \in 0 .. ZMaxN :
          last = [op |-> "args", arg |-> <<r1, n1, r2, n2>>, ret |-> NULL]

CallZTest ==
    /\ last.op = "args"
    /\ last' = [op |-> "_z_test_confidence", arg |-> last.arg,
                ret |-> _z_test_confidence(last.arg[1], last.arg[2], last.arg[3], last.arg[4])]
    /\ UNCHANGED <<scheduled_posts, next_post, experiments, variants, variant_metrics, now, next_exp, next_var>>

NextZTest == CallZTest

SpecZTest == InitZTest /\ [][NextZTest]_vars

\* SpecZConf: _z_to_confidence called on two z-scores, each 0 or more
ZBreaks == {32900, 25760, 23260, 19600, 16450, 12800, 10360, 8420, 6740}

ZScores ==
    {z \in {b + k : b \in ZBreaks \cup {0}, k \in -ZSpread .. ZSpread} : z >= 0}
        \cup {1000 * k : k \in 0 .. ZMaxK}

InitZConf ==
    /\ experiments = <<>>
    /\ variants = <<>>
    /\ variant_metrics = EmptyBag
    /\ now = 1
    /\ scheduled_posts = <<>>
    /\ next_post = 1
    /\ next_exp = 1
    /\ next_var = 1
    /\ \E z1 \in ZScores, z2 \in ZScores :
          last = [op |-> "args", arg |-> <<z1, z2>>, ret |-> NULL]

CallZConf ==
    /\ last.op = "args"
    /\ last' = [op |-> "_z_to_confidence", arg |-> last.arg,
                ret |-> <<_z_to_confidence(last.arg[1]), _z_to_confidence(last.arg[2])>>]
    /\ UNCHANGED <<scheduled_posts, next_post, experiments, variants, variant_metrics, now, next_exp, next_var>>

NextZConf == CallZConf

SpecZConf == InitZConf /\ [][NextZConf]_vars

\* ------------------------------------------------------------------ claims
StartStep(e) == last'.op = "start_experiment" /\ last'.arg = e
DeleteStep(e) == last'.op = "delete_experiment" /\ last'.arg = e
IsResult == last.op \in {"get_results", "complete_experiment"}

\* C1: start_experiment changes an experiment's status to running only when its
\* status is draft or paused.  (The code has no such check: refuted.)
C1_StartOnlyFromDraftOrPaused ==
    [][\A e \in DOMAIN experiments :
          (/\ StartStep(e)
           /\ e \in DOMAIN experiments'
           /\ experiments[e].status # "running"
           /\ experiments'[e].status = "running")
          => experiments[e].status \in {"draft", "paused"}]_vars

\* C2: once an experiment is completed, it stays completed for as long as it
\* exists.  (start_experiment moves it back to running: refuted.)
C2_CompletedIsTerminal ==
    [][\A e \in DOMAIN experiments \cap DOMAIN experiments' :
          experiments[e].status = "completed" => experiments'[e].status = "completed"]_vars

\* C3: start_experiment on an experiment id with fewer than 2 variants returns the
\* insufficient-variants message and changes no experiment (status and started_at
\* stay as they were), with or without a control, for a known or an unknown id.
C3_StartNeedsTwoVariants ==
    [][\A e \in ExpIdArgs :
          (StartStep(e) /\ Cardinality(VariantsOf(variants, e)) < 2)
          => (last'.ret = MsgNeedVariants /\ experiments' = experiments)]_vars

C3_Witness ==
    /\ last.op = "start_experiment"
    /\ last.ret = MsgNeedVariants
    /\ last.arg \in DOMAIN experiments
    /\ experiments[last.arg].status = "draft"
    /\ experiments[last.arg].started_at = NULL
    /\ \E v \in VariantsOf(variants, last.arg) : variants[v].is_control

\* C4: start_experiment on an experiment id with at least 2 variants, none of them
\* a control, returns the missing-control message and changes no experiment; and
\* whenever start_experiment changes an experiment, a control variant of it exists
\* at the call.
C4_StartNeedsControl ==
    [][\A e \in ExpIdArgs :
          /\ (/\ StartStep(e)
               /\ Cardinality(VariantsOf(variants, e)) >= 2
               /\ \A v \in VariantsOf(variants, e) : ~variants[v].is_control)
              => (last'.ret = MsgNeedControl /\ experiments' = experiments)
          /\ (StartStep(e) /\ experiments' # experiments)
              => \E v \in VariantsOf(variants, e) : variants[v].is_control]_vars

C4_Witness ==
    /\ last.op = "start_experiment"
    /\ last.ret = MsgNeedControl
    /\ last.arg \in DOMAIN experiments
    /\ experiments[last.arg].status = "draft"
    /\ experiments[last.arg].started_at = NULL
    /\ Cardinality(VariantsOf(variants, last.arg)) >= 2

\* C5: delete_experiment(e) on an existing experiment, whatever its status,
\* reports success and removes the experiment, its variants and every observation
\* of its variants; the other experiments, the variants of other experiments and
\* the observations of other variants stay as they were; and a further
\* delete_experiment(e) reports not-found.
C5_DeleteCascades ==
    [][\A e \in DOMAIN experiments :
          DeleteStep(e) =>
            /\ last'.ret = MsgDeleted
            /\ e \notin DOMAIN experiments'
            /\ VariantsOf(variants', e) = {}
            /\ \A v \in VariantsOf(variants, e) :
                  v \notin DOMAIN variants' /\ ObservationCount(variant_metrics', v) = 0
            /\ \A x \in DOMAIN experiments \ {e} :
                  x \in DOMAIN experiments' /\ experiments'[x] = experiments[x]
            /\ \A v \in DOMAIN variants \ VariantsOf(variants, e) :
                  v \in DOMAIN variants' /\ variants'[v] = variants[v]
            /\ \A r \in BagToSet(variant_metrics) :
                  r.variant_id \notin VariantsOf(variants, e)
                  => CopiesIn(r, variant_metrics') = CopiesIn(r, variant_metrics)
            /\ DeleteMessage(experiments', e) = MsgNotFound]_vars

C5_Witness ==
    /\ last.op = "delete_experiment"
    /\ last.ret = MsgDeleted
    /\ next_var = 3
    /\ Cardinality(DOMAIN variants) = 1
    /\ BagCardinality(variant_metrics) = 0
    /\ \A v \in DOMAIN variants : variants[v].experiment_id # last.arg /\ variants[v].sample_size = 0

\* C6: delete_experiment with an id that is no experiment returns the not-found
\* message and leaves all three tables unchanged.  (Variants stored under that id,
\* and their observations, are deleted: refuted.)
C6_DeleteUnknownChangesNothing ==
    [][\A e \in ExpIdArgs \ DOMAIN experiments :
          DeleteStep(e) => (last'.ret = MsgNotFound /\ UNCHANGED db)]_vars

\* C7: for every variant id, the number of observations stored under it equals the
\* sample_size of the variant record with that id.  (record_metric with an id that
\* is no variant stores an observation no counter reflects: refuted.)
C7_ObservationsPaired ==
    \A v \in VarIdArgs :
        (v \in DOMAIN variants \/ ObservationCount(variant_metrics, v) > 0)
        => (/\ v \in DOMAIN variants
            /\ variants[v].sample_size = ObservationCount(variant_metrics, v))

\* C8: every variant belongs to an existing experiment and every observation to an
\* existing variant.  (add_variant and record_metric accept any id: refuted.)
C8_Ownership ==
    /\ \A v \in DOMAIN variants : variants[v].experiment_id \in DOMAIN experiments
    /\ \A r \in BagToSet(variant_metrics) : r.variant_id \in DOMAIN variants

\* C9: in every result of get_results or complete_experiment, winner_id and
\* winner_name are set exactly when is_significant is true.
C9_WinnerIffSignificant ==
    IsResult =>
        /\ (last.ret.winner_id # NULL) <=> last.ret.is_significant
        /\ (last.ret.winner_name # NoName) <=> last.ret.is_significant

\* a result that is not significant although a candidate leads the control
C9_Witness ==
    /\ last.op = "get_results"
    /\ ~last.ret.is_significant
    /\ last.ret.winner_id = NULL
    /\ \E i, j \in DOMAIN last.ret.variant_results :
          LET c == last.ret.variant_results[i]
              t == last.ret.variant_results[j]
          IN  /\ c.is_control /\ ~t.is_control
              /\ c.sample_size > 0 /\ t.sample_size > 0
              /\ RLt(c.metric_value, t.metric_value)

\* C10 as claimed: a significant result has lift_percent > 0.  (Refuted: the lift
\* is 0 when the control's mean is not positive and when the control wins.)
C10_SignificantLiftPositive ==
    (last.op = "get_results" /\ last.ret.is_significant)
    => RLt(Zero, last.ret.lift_percent)

\* C10 as amended: a significant result has lift_percent >= 0, and lift_percent > 0
\* exactly when the baseline control's mean is positive and the best candidate's
\* mean is above it.
C10_SignificantLiftSign ==
    (IsResult /\ last.ret.is_significant) =>
        LET c == ControlData(last.ret.variant_results)
            b == BestOf(last.ret.variant_results, c)
        IN  /\ RLe(Zero, last.ret.lift_percent)
            /\ RLt(Zero, last.ret.lift_percent)
                <=> (RLt(Zero, c.metric_value) /\ RLt(c.metric_value, b.metric_value))

C10_Witness ==
    /\ last.op = "get_results"
    /\ last.ret.is_significant
    /\ RLt(Zero, last.ret.lift_percent)

\* rows of a result: the controls and the candidates (variants not flagged is_control)
ControlRows(res) == {i \in DOMAIN res.variant_results : res.variant_results[i].is_control}
CandidateRows(res) == DOMAIN res.variant_results \ ControlRows(res)

\* C11: when the control's mean of the primary metric is strictly greater than the
\* mean of every non-control variant (so greater than the best candidate's), the
\* result has lift_percent = 0 and, if it is significant, names a control as winner.
C11_ControlWins ==
    (/\ IsResult
     /\ ControlRows(last.ret) # {} /\ CandidateRows(last.ret) # {}
     /\ \A i \in ControlRows(last.ret), j \in CandidateRows(last.ret) :
            RLt(last.ret.variant_results[j].metric_value,
                last.ret.variant_results[i].metric_value))
    => /\ last.ret.lift_percent = Zero
       /\ last.ret.is_significant
            => \E i \in ControlRows(last.ret) :
                  /\ last.ret.winner_id = last.ret.variant_results[i].id
                  /\ last.ret.winner_name = last.ret.variant_results[i].name

\* a significant result won by the control
C11_Witness ==
    /\ last.op = "get_results"
    /\ last.ret.is_significant
    /\ last.ret.lift_percent = Zero
    /\ \E i \in ControlRows(last.ret), j \in CandidateRows(last.ret) :
          /\ last.ret.winner_id = last.ret.variant_results[i].id
          /\ RLt(last.ret.variant_results[j].metric_value,
                 last.ret.variant_results[i].metric_value)

\* the earliest-created control of a result with a control: the one of least id
EarliestControl(res) ==
    LET i == CHOOSE k \in ControlRows(res) :
                 \A j \in ControlRows(res) :
                     res.variant_results[k].id <= res.variant_results[j].id
    IN  res.variant_results[i]

\* C12: with several variants flagged is_control, the baseline of get_results is the
\* earliest-created control: lift, confidence, significance and the winner are those
\* of comparing that control with the best candidate.  (The loop keeps the last
\* control it meets, the latest-created one: refuted.)
C12_FirstControlIsBaseline ==
    (IsResult /\ Cardinality(ControlRows(last.ret)) >= 2) =>
        LET c == EarliestControl(last.ret)
            b == BestOf(last.ret.variant_results, c)
            t == SignificanceTest(c, b, experiments[last.arg].confidence_threshold)
        IN  /\ last.ret.confidence = t.confidence
            /\ last.ret.is_significant = t.is_significant
            /\ last.ret.lift_percent = FinalLift(c, b, t.lift)
            /\ last.ret.winner_id = WinnerId(WinnerData(c, b), t.is_significant)

\* the candidates of a result whose mean is maximal among the candidates
TopCandidates(res) ==
    {i \in CandidateRows(res) :
        \A j \in CandidateRows(res) :
            RLe(res.variant_results[j].metric_value, res.variant_results[i].metric_value)}

\* the earliest-created of them: the one of least id
EarliestTop(res) ==
    LET i == CHOOSE k \in TopCandidates(res) :
                 \A j \in TopCandidates(res) :
                     res.variant_results[k].id <= res.variant_results[j].id
    IN  res.variant_results[i]

\* C13: the best candidate get_results compares with the control is a non-control
\* variant of maximal mean among the non-control variants, the earliest-created one
\* when several tie: confidence, significance, lift and winner of the result are
\* those of comparing the baseline with that variant.
C13_BestCandidate ==
    (IsResult /\ ControlRows(last.ret) # {} /\ CandidateRows(last.ret) # {}) =>
        LET c == ControlData(last.ret.variant_results)
            b == EarliestTop(last.ret)
            t == SignificanceTest(c, b, experiments[last.arg].confidence_threshold)
        IN  /\ ~b.is_control
            /\ last.ret.confidence = t.confidence
            /\ last.ret.is_significant = t.is_significant
            /\ last.ret.lift_percent = (IF RLt(b.metric_value, c.metric_value) THEN Zero ELSE t.lift)
            /\ (t.is_significant /\ ~RLt(b.metric_value, c.metric_value))
                 => last.ret.winner_id = b.id

\* two candidates tie for the maximum with different numbers of observations, and
\* the result names the earlier-created one as winner
C13_Witness ==
    /\ last.op = "get_results"
    /\ last.ret.is_significant
    /\ \E i, j \in TopCandidates(last.ret) :
          /\ last.ret.variant_results[i].id < last.ret.variant_results[j].id
          /\ last.ret.variant_results[i].sample_size # last.ret.variant_results[j].sample_size
          /\ last.ret.winner_id = last.ret.variant_results[i].id

\* C14: when the control and the best candidate both have an observation of the
\* primary metric, is_significant is exactly (confidence >= the threshold stored
\* with the experiment); when one of them has none, is_significant is false and
\* confidence and lift are 0, whatever the threshold.
C14_SignificantIffThreshold ==
    (IsResult /\ ControlRows(last.ret) # {} /\ CandidateRows(last.ret) # {}) =>
        LET c == ControlData(last.ret.variant_results)
            b == EarliestTop(last.ret)
            threshold == experiments[last.arg].confidence_threshold
        IN  IF c.sample_size > 0 /\ b.sample_size > 0
            THEN last.ret.is_significant <=> (last.ret.confidence >= threshold * 1000)
            ELSE /\ ~last.ret.is_significant
                 /\ last.ret.confidence = 0
                 /\ last.ret.lift_percent = Zero

\* a result whose confidence just reaches a threshold of 95
C14_Witness ==
    /\ last.op = "get_results"
    /\ last.ret.is_significant
    /\ last.ret.confidence = 95000
    /\ experiments[last.arg].confidence_threshold = 95
    /\ CandidateRows(last.ret) # {}

\* C15: get_results on an existing experiment that has no variants, or variants but
\* none flagged is_control, returns a result (it does not raise) with confidence 0,
\* is_significant false, no winner and lift 0, whose variant_results hold one row
\* for each variant of the experiment, with its mean and its number of observations.
C15_NoControlResult ==
    (/\ IsResult
     /\ last.arg \in DOMAIN experiments
     /\ \A v \in VariantsOf(variants, last.arg) : ~variants[v].is_control)
    => /\ last.ret.confidence = 0
       /\ ~last.ret.is_significant
       /\ last.ret.winner_id = NULL
       /\ last.ret.winner_name = NoName
       /\ last.ret.lift_percent = Zero
       /\ last.ret.experiment_id = last.arg
       /\ Len(last.ret.variant_results) = Cardinality(VariantsOf(variants, last.arg))
       /\ \A v \in VariantsOf(variants, last.arg) :
             \E i \in DOMAIN last.ret.variant_results :
                 LET r == last.ret.variant_results[i]
                 IN  /\ r.id = v
                     /\ r.sample_size =
                            MetricCount(variant_metrics, v, experiments[last.arg].primary_metric)
                     /\ r.metric_value =
                            MetricAvg(variant_metrics, v, experiments[last.arg].primary_metric)

\* a result for two variants with observations, neither of them a control, at
\* threshold 0
C15_Witness ==
    /\ last.op = "get_results"
    /\ last.arg \in DOMAIN experiments
    /\ experiments[last.arg].confidence_threshold = 0
    /\ Len(last.ret.variant_results) = 2
    /\ \A i \in DOMAIN last.ret.variant_results :
          /\ ~last.ret.variant_results[i].is_control
          /\ last.ret.variant_results[i].sample_size = 2
    /\ last.ret.confidence = 0

\* a result for an experiment without variants
C15_WitnessNoVariants ==
    /\ last.op = "get_results"
    /\ last.arg \in DOMAIN experiments
    /\ last.ret.variant_results = <<>>

\* C16: get_results on an existing experiment none of whose variants has a recorded
\* observation returns a result (it does not raise) with is_significant false and
\* confidence 0, for every threshold and every set of variants and control flags.
C16_NoObservations ==
    (/\ IsResult
     /\ last.arg \in DOMAIN experiments
     /\ \A v \in VariantsOf(variants, last.arg) : ObservationCount(variant_metrics, v) = 0)
    => /\ ~last.ret.is_significant
       /\ last.ret.confidence = 0
       /\ Len(last.ret.variant_results) = Cardinality(VariantsOf(variants, last.arg))

\* a result at threshold 0 for a control and a candidate without observations
C16_Witness ==
    /\ last.op = "get_results"
    /\ last.arg \in DOMAIN experiments
    /\ experiments[last.arg].confidence_threshold = 0
    /\ variant_metrics = EmptyBag
    /\ ControlRows(last.ret) # {} /\ CandidateRows(last.ret) # {}
    /\ ~last.ret.is_significant

\* a step of complete_experiment(e): the clock stands still during a call
CompleteStep(e) == last'.op = "complete_experiment" /\ last'.arg = e /\ now' = now

\* C17: complete_experiment on an existing experiment, whatever its status, sets the
\* status to completed and completed_at to the time of the call, changes nothing
\* else in the store, and returns the result get_results gives on the store it
\* leaves.
C17_CompleteFromAnyStatus ==
    [][\A e \in DOMAIN experiments :
          CompleteStep(e) =>
            /\ DOMAIN experiments' = DOMAIN experiments
            /\ experiments'[e].status = "completed"
            /\ experiments'[e].completed_at = now
            /\ experiments'[e] = [experiments[e] EXCEPT !.status = "completed",
                                                       !.completed_at = now]
            /\ \A x \in DOMAIN experiments \ {e} : experiments'[x] = experiments[x]
            /\ UNCHANGED <<variants, variant_metrics>>
            /\ \E ord \in VariantOrders(variants', e) :
                  last'.ret = get_results(experiments', variants', variant_metrics', e, ord)]_vars

\* a draft experiment (never started) after complete_experiment
C17_Witness ==
    /\ last.op = "complete_experiment"
    /\ last.arg \in DOMAIN experiments
    /\ experiments[last.arg].status = "completed"
    /\ experiments[last.arg].started_at = NULL
    /\ experiments[last.arg].completed_at # NULL
    /\ last.ret.experiment_name # "Unknown"

\* a completed experiment completed once more, at a later time
C17_WitnessAgain ==
    /\ last.op = "complete_experiment"
    /\ last.arg \in DOMAIN experiments
    /\ experiments[last.arg].started_at # NULL
    /\ experiments[last.arg].completed_at > experiments[last.arg].started_at

\* C18: the confidence_threshold and the primary metric of an experiment are those
\* given at its creation: add_variant, start_experiment, record_metric, get_results,
\* list_experiments and complete_experiment leave them as they are, and a result
\* read for the experiment is significant only if its confidence reaches that
\* threshold, and is significant if the control and the best candidate have
\* observations and the confidence reaches it.
C18_ThresholdFixed ==
    [][\A e \in DOMAIN experiments :
          /\ e \in DOMAIN experiments'
          /\ experiments'[e].confidence_threshold = experiments[e].confidence_threshold
          /\ experiments'[e].primary_metric = experiments[e].primary_metric
          /\ (last'.op \in {"get_results", "complete_experiment"} /\ last'.arg = e) =>
                LET threshold == experiments[e].confidence_threshold
                    tested == /\ ControlRows(last'.ret) # {}
                              /\ \A i \in DOMAIN last'.ret.variant_results :
                                    last'.ret.variant_results[i].sample_size > 0
                IN  /\ last'.ret.primary_metric = experiments[e].primary_metric
                    /\ last'.ret.is_significant => last'.ret.confidence >= threshold * 1000
                    /\ (tested /\ last'.ret.confidence >= threshold * 1000)
                          => last'.ret.is_significant]_vars

\* an experiment created with threshold 50, with variants added, observations
\* recorded and started since, yields a significant result at confidence 70
C18_Witness ==
    /\ last.op = "get_results"
    /\ last.arg \in DOMAIN experiments
    /\ experiments[last.arg].confidence_threshold = 50
    /\ experiments[last.arg].status = "running"
    /\ last.ret.confidence = 70000
    /\ last.ret.is_significant

\* C19: observations are append-only.  A step of delete_experiment(e) removes the
\* observations of the variants stored under e and no other; every other step
\* keeps each existing observation (variant, metric, value) as it is: record_metric
\* adds one observation, and create_experiment, add_variant, start_experiment,
\* get_results, list_experiments and complete_experiment leave the observations
\* unchanged, as does the passing of time between calls.
C19_AppendOnly ==
    [][IF now' # now THEN variant_metrics' = variant_metrics
       ELSE IF last'.op = "delete_experiment"
       THEN \A r \in BagToSet(variant_metrics) :
               IF r.variant_id \in VariantsOf(variants, last'.arg)
               THEN CopiesIn(r, variant_metrics') = 0
               ELSE CopiesIn(r, variant_metrics') = CopiesIn(r, variant_metrics)
       ELSE /\ \A r \in BagToSet(variant_metrics) :
                  CopiesIn(r, variant_metrics') >= CopiesIn(r, variant_metrics)
            /\ IF last'.op = "record_metric"
               THEN BagCardinality(variant_metrics') = BagCardinality(variant_metrics) + 1
               ELSE variant_metrics' = variant_metrics]_vars

\* after a delete_experiment that removed an experiment, an observation of a variant
\* the experiment did not own is still stored
C19_Witness ==
    /\ last.op = "delete_experiment"
    /\ last.ret = MsgDeleted
    /\ next_var > 1
    /\ BagCardinality(variant_metrics) >= 1

\* C20: _calculate_lift(c, t) is 0 whenever c <= 0, for every t, and is
\* ((t - c) / c) * 100 whenever c > 0: the fraction r in lowest terms with
\* r * c = (t - c) * 100.
C20_Lift ==
    last.op = "_calculate_lift" =>
        LET c == last.arg[1]
            t == last.arg[2]
            r == last.ret
        IN  IF c.n <= 0 THEN r = Zero
            ELSE /\ r.d > 0
                 /\ GCD(Abs(r.n), r.d) = 1
                 /\ r.n * c.n * t.d = 100 * r.d * (t.n * c.d - c.n * t.d)

\* a negative lift: a positive control value above the test value
C20_Witness ==
    /\ last.op = "_calculate_lift"
    /\ last.arg[1].n > 0
    /\ RLt(last.arg[2], last.arg[1])
    /\ RLt(last.ret, Zero)

\* a negative control value
C20_WitnessNegative ==
    /\ last.op = "_calculate_lift"
    /\ last.arg[1].n < 0
    /\ last.arg[2].n > 0
    /\ last.ret = Zero

\* the pooled proportion of two rates in percent, each capped at 100
PooledProportion(r1, n1, r2, n2) ==
    LET q1 == IF RLt(Hundred, r1) THEN Hundred ELSE r1
        q2 == IF RLt(Hundred, r2) THEN Hundred ELSE r2
    IN  RDiv(RAdd(RMul(q1, RInt(n1)), RMul(q2, RInt(n2))), RInt(100 * (n1 + n2)))

\* C21: _z_test_confidence returns 0 when a sample size is below 2, when the pooled
\* proportion is 0 or 1, and when the two rates are the same.
C21_ZTestZero ==
    last.op = "_z_test_confidence" =>
        LET r1 == last.arg[1]
            n1 == last.arg[2]
            r2 == last.arg[3]
            n2 == last.arg[4]
        IN  /\ (n1 < 2 \/ n2 < 2) => last.ret = 0
            /\ (n1 >= 2 /\ n2 >= 2 /\ PooledProportion(r1, n1, r2, n2) \in {Zero, One})
                  => last.ret = 0
            /\ r1 = r2 => last.ret = 0

\* equal rates strictly between 0 and 100 on samples of two or more
C21_Witness ==
    /\ last.op = "_z_test_confidence"
    /\ last.arg[2] >= 2 /\ last.arg[4] >= 2
    /\ last.arg[1] = last.arg[3]
    /\ RLt(Zero, last.arg[1]) /\ RLt(last.arg[1], Hundred)
    /\ last.ret = 0

\* different rates on samples of two or more give a confidence above 0
C21_WitnessPositive ==
    /\ last.op = "_z_test_confidence"
    /\ last.ret > 0

\* C22: _z_to_confidence is monotonic non-decreasing on z >= 0: z1 < z2 gives
\* _z_to_confidence(z1) <= _z_to_confidence(z2), also across z = 0.674 where the
\* interpolation meets the table, and every value lies in 0 .. 99.9.
C22_Monotonic ==
    last.op = "_z_to_confidence" =>
        /\ last.arg[1] < last.arg[2] => last.ret[1] <= last.ret[2]
        /\ last.ret[1] \in 0 .. 99900
        /\ last.ret[2] \in 0 .. 99900

\* the two z-scores next to each other at 0.674: 0.6739 interpolates to less than
\* 50, 0.674 is the last row of the table
C22_Witness ==
    /\ last.op = "_z_to_confidence"
    /\ last.arg = <<6739, 6740>>
    /\ last.ret[1] > 49900
    /\ last.ret[1] < last.ret[2]
    /\ last.ret[2] = 50000

\* C23: with the default threshold 95 on engagement_rate, once E2EObs (500)
\* observations of value 2 are recorded for the control and as many of value 10 for
\* the one other variant, get_results reports a confidence of 95 or more,
\* is_significant, the other variant as winner and a lift of 400 percent.
C23_EndToEnd ==
    (/\ last.op = "get_results"
     /\ variants[1].sample_size = E2EObs
     /\ variants[2].sample_size = E2EObs)
    => /\ last.ret.confidence >= 95000
       /\ last.ret.is_significant
       /\ last.ret.winner_id = 2
       /\ last.ret.winner_name = variants[2].name
       /\ last.ret.lift_percent = RInt(400)

C23_Witness ==
    /\ last.op = "get_results"
    /\ MetricCount(variant_metrics, 1, "engagement_rate") = 500
    /\ MetricCount(variant_metrics, 2, "engagement_rate") = 500
    /\ last.ret.variant_results[1].metric_value = RInt(2)
    /\ last.ret.variant_results[2].metric_value = RInt(10)
    /\ last.ret.is_significant

\* the number of notes of a kind among recommendations
RECURSIVE CountKind(_, _)
CountKind(recs, kind) ==
    IF Len(recs) = 0 THEN 0
    ELSE (IF Head(recs).kind = kind THEN 1 ELSE 0) + CountKind(Tail(recs), kind)

\* C24: for a result that is not significant the recommendations hold exactly one
\* of the two notes on the sample size: the insufficient-sample note when the
\* observations of all variants together are fewer than 100, else the
\* no-meaningful-difference note; for a significant result they hold neither.
C24_SampleNote ==
    last.op = "_generate_recommendations" =>
        LET rows == last.arg.variant_data
            total == rows[1].sample_size + rows[2].sample_size
            more == CountKind(last.ret[1], "collect_more")
            same == CountKind(last.ret[1], "no_difference")
        IN  IF last.arg.is_significant THEN more = 0 /\ same = 0
            ELSE IF total < 100 THEN more = 1 /\ same = 0
            ELSE more = 0 /\ same = 1

\* 100 observations in all and no significance: the no-meaningful-difference note
C24_Witness ==
    /\ last.op = "_generate_recommendations"
    /\ ~last.arg.is_significant
    /\ last.arg.variant_data[1].sample_size + last.arg.variant_data[2].sample_size = 100
    /\ CountKind(last.ret[1], "no_difference") = 1

\* 99 observations in all and no significance: the insufficient-sample note
C24_WitnessFew ==
    /\ last.op = "_generate_recommendations"
    /\ ~last.arg.is_significant
    /\ last.arg.variant_data[1].sample_size + last.arg.variant_data[2].sample_size = 99
    /\ CountKind(last.ret[1], "collect_more") = 1

\* the tips among recommendations
Tips(recs) == {recs[i].name : i \in {j \in DOMAIN recs : recs[j].kind = "tip"}}

\* C25 as claimed: for every primary metric of MetricType the recommendations
\* include a metric-specific tip.  (Refuted: only engagement_rate, clicks and
\* shares have one.)
C25_TipForEveryMetric ==
    last.op = "_generate_recommendations" =>
        /\ Tips(last.ret[1]) # {}
        /\ last.arg.metrics[1] # last.arg.metrics[2]
              => Tips(last.ret[1]) \cap Tips(last.ret[2]) = {}

\* C25 as amended: the recommendations include exactly one metric-specific tip when
\* the primary metric is engagement_rate, clicks or shares, and none for the other
\* metrics of MetricType; the tips of different metrics are distinct.
C25_TipForThreeMetrics ==
    last.op = "_generate_recommendations" =>
        /\ \A i \in 1 .. 2 :
              IF last.arg.metrics[i] \in {"engagement_rate", "clicks", "shares"}
              THEN CountKind(last.ret[i], "tip") = 1
              ELSE CountKind(last.ret[i], "tip") = 0
        /\ last.arg.metrics[1] # last.arg.metrics[2]
              => Tips(last.ret[1]) \cap Tips(last.ret[2]) = {}

\* clicks and shares: two tips, not the same
C25_Witness ==
    /\ last.op = "_generate_recommendations"
    /\ last.arg.metrics = <<"clicks", "shares">>
    /\ Tips(last.ret[1]) # {} /\ Tips(last.ret[2]) # {}
    /\ Tips(last.ret[1]) # Tips(last.ret[2])

\* C26: get_results and complete_experiment with an id that is no experiment return
\* the not-found result (name "Unknown", confidence 0, not significant, no winner,
\* no variant rows, no recommendations) and leave the three tables as they are.
C26_UnknownExperiment ==
    [][\A e \in ExpIdArgs \ DOMAIN experiments :
          (/\ last'.op \in {"get_results", "complete_experiment"}
           /\ last'.arg = e
           /\ now' = now)
          => /\ last'.ret.experiment_id = e
             /\ last'.ret.experiment_name = "Unknown"
             /\ last'.ret.confidence = 0
             /\ ~last'.ret.is_significant
             /\ last'.ret.winner_id = NULL
             /\ last'.ret.winner_name = NoName
             /\ last'.ret.lift_percent = Zero
             /\ last'.ret.variant_results = <<>>
             /\ last'.ret.recommendations = <<>>
             /\ UNCHANGED db]_vars

\* complete_experiment with an id that is no experiment, although a variant is
\* stored under that id
C26_Witness ==
    /\ last.op = "complete_experiment"
    /\ last.arg \notin DOMAIN experiments
    /\ VariantsOf(variants, last.arg) # {}
    /\ last.ret.experiment_name = "Unknown"
    /\ last.ret.variant_results = <<>>


\* ---- C27, C28: the scheduler
PostStatus(posts, p) == posts[p].status

SameStatuses(P) ==
    /\ DOMAIN scheduled_posts' = DOMAIN scheduled_posts
    /\ \A q \in P : PostStatus(scheduled_posts', q) = PostStatus(scheduled_posts, q)

CancelStep(p) == last'.op = "cancel_post" /\ last'.arg = p /\ now' = now

\* C27: cancel_post succeeds only for a pending post, whose status becomes
\* cancelled; for a published, failed, cancelled or nonexistent post it returns the
\* not-found message and no post changes its status.
C27_CancelOnlyPending ==
    [][\A p \in PostIdArgs :
          CancelStep(p) =>
             IF p \in DOMAIN scheduled_posts /\ PostStatus(scheduled_posts, p) = "pending"
             THEN /\ last'.ret = MsgCancelled
                  /\ PostStatus(scheduled_posts', p) = "cancelled"
                  /\ SameStatuses(DOMAIN scheduled_posts \ {p})
             ELSE /\ last'.ret = MsgNoPending
                  /\ SameStatuses(DOMAIN scheduled_posts)]_vars

\* a cancel of a published post was refused, after another post was cancelled
C27_Witness ==
    /\ last.op = "cancel_post"
    /\ last.ret = MsgNoPending
    /\ last.arg \in DOMAIN scheduled_posts
    /\ PostStatus(scheduled_posts, last.arg) = "published"
    /\ \E q \in DOMAIN scheduled_posts : PostStatus(scheduled_posts, q) = "cancelled"

\* a step that hands post p to mark_published, mark_failed or a successful cancel_post
HandledStep(p) ==
    /\ now' = now
    /\ last'.arg = p
    /\ \/ last'.op \in {"mark_published", "mark_failed"}
       \/ last'.op = "cancel_post" /\ last'.ret = MsgCancelled

StatusKept(e) ==
    /\ e \in DOMAIN experiments'
    /\ experiments'[e].status = experiments[e].status

ReadOrFailedStartStep ==
    /\ now' = now
    /\ \/ last'.op \in {"add_variant", "record_metric", "get_results", "list_experiments"}
       \/ last'.op = "start_experiment" /\ last'.ret # MsgStarted

\* C29: an experiment is created as draft; its status changes only in a step of a
\* successful start_experiment for it (to running) or of complete_experiment for it
\* (to completed); add_variant, record_metric, get_results, list_experiments and a
\* failed start_experiment keep every experiment's status; no experiment is ever
\* paused or cancelled.
C29_StatusChanges ==
    [][/\ \A e \in DOMAIN experiments' \ DOMAIN experiments :
             experiments'[e].status = "draft"
       /\ \A e \in DOMAIN experiments \cap DOMAIN experiments' :
             experiments'[e].status # experiments[e].status
             => \/ /\ StartStep(e)
                   /\ now' = now
                   /\ last'.ret = MsgStarted
                   /\ experiments'[e].status = "running"
                \/ /\ CompleteStep(e)
                   /\ experiments'[e].status = "completed"
       /\ ReadOrFailedStartStep => \A e \in DOMAIN experiments : StatusKept(e)
       /\ \A e \in DOMAIN experiments' :
             experiments'[e].status \in {"draft", "running", "completed"}]_vars

\* an experiment was started while another one stays a draft
C29_Witness ==
    /\ last.op = "start_experiment"
    /\ last.ret = MsgStarted
    /\ last.arg \in DOMAIN experiments
    /\ experiments[last.arg].status = "running"
    /\ \E e \in DOMAIN experiments : experiments[e].status = "draft"

\* ---- C30: get_results is a pure read
WithStatus(exps, e, s) ==
    IF e \in DOMAIN exps THEN [exps EXCEPT ![e].status = s] ELSE exps

GetResultsStep(e) == last'.op = "get_results" /\ last'.arg = e /\ now' = now

\* C30: a get_results step changes no experiment, variant or observation; its
\* result is the one the stored rows give under every status of the experiment;
\* and it is the result of the get_results call before it for the same id when no
\* other call came between.
C30_PureRead ==
    [][\A e \in ExpIdArgs :
          GetResultsStep(e) =>
             /\ UNCHANGED db
             /\ \A s \in Statuses :
                   \E ord \in VariantOrders(variants, e) :
                      last'.ret = get_results(WithStatus(experiments, e, s), variants,
                                              variant_metrics, e, ord)
             /\ (last.op = "get_results" /\ last.arg = e) => last'.ret = last.ret]_vars

\* a significant result with a winner, read for an experiment that is completed
C30_Witness ==
    /\ last.op = "get_results"
    /\ last.arg \in DOMAIN experiments
    /\ experiments[last.arg].status = "completed"
    /\ last.ret.is_significant
    /\ last.ret.winner_id # NULL
    /\ Len(last.ret.variant_results) = 2

====
